---- MODULE Spec2Model ----
(***************************************************************************)
(* The process-orchestration core of the puppeteer harness:                *)
(*   puppeteer/process_manager.py  ProcessManager, kill_tree,              *)
(*                                 cleanup_orphans                         *)
(*   puppeteer/port.py             find_available_port, wait_for_port      *)
(*   puppeteer/harness.py          main, _wait_for_observer_table          *)
(*                                                                         *)
(* Spec follows one supervisor run, PortSpec a series of                   *)
(* find_available_port calls, ReapSpec one cleanup_orphans call.           *)
(*                                                                         *)
(* The supervisor is one Python thread.  A signal handler runs on top of   *)
(* whatever that thread was doing, so the thread is modelled as a stack of *)
(* frames: frames[1] is main(), every further frame is one activation of   *)
(* ProcessManager._signal_handler.  Only the top frame takes steps.        *)
(***************************************************************************)
EXTENDS Integers, Sequences, FiniteSets, TLC

VARIABLES
    pc,            \* position of main() (harness.py:533-746)
    sp,            \* position inside ProcessManager.start_process
    widx,          \* index of the worker the StartWorkers loops are at
    frames,        \* per frame: position inside ProcessManager.cleanup
    lock,          \* ProcessManager._lock: 0 free, else the frame holding it
    cleanedUp,     \* ProcessManager._cleaned_up
    tracked,       \* ProcessManager._processes (pids, in spawn order)
    pidFile,       \* the Recovery File: [exists, lines]
    handlersInstalled, \* signal handlers and the atexit finalizer are set
    alive,         \* pids of the processes running on the host
    ppid,          \* parent pid of every process (0: none of the model's)
    forks,         \* number of descendants forked so far
    listening,     \* the server accepts connections on config.port
    observerLog,   \* observer.log: "absent", "stale" (the sentinel line of an
                   \* earlier run in the same directory), "empty" or "sentinel"
    elapsed,       \* time since the running readiness gate started
    wake,          \* time at which the gate's sleep ends (next poll)
    N,             \* headless_count: number of configured workers
    hostBound,     \* ports some other process of the host has bound
    port,          \* config.port
    launched,      \* history: pids start_process has spawned
    sigCount,      \* history: signals delivered to the supervisor
    failed,        \* history: the stage failure that ended the run
    killPasses,    \* history: number of kill passes begun
    passTargets,   \* history: the tracked pids when the kill pass began
    killed,        \* history: pids kill_tree was run on by the kill pass
    obsExitAt,     \* history: gate time at which the observer exited (-1: not)
    sentinelAt,    \* history: gate time at which the sentinel appeared (-1: not)
    reapCalls,     \* history: number of cleanup_orphans calls of this run
    returned,      \* ports the find_available_port calls made so far returned
    probedBound,   \* the ports that were bound when the last call probed
    rpc,           \* position inside cleanup_orphans
    ridx,          \* index of the line cleanup_orphans is at
    procs,         \* the host's processes as cleanup_orphans meets them
    killedPids,    \* cleanup_orphans' killed_pids
    scanOut,       \* the pids the pattern scan (pgrep) printed
    file0,         \* history: the Recovery File when cleanup_orphans began
    sig1,          \* history: pids signalled by the recovery-file strategy
    sig2,          \* history: pids signalled by the pattern strategy
    epc,           \* position inside start_process's environment merge
    envParent,     \* os.environ of the supervisor
    envOver,       \* start_process's env argument
    envChild,      \* the environment handed to Popen
    kpc,           \* position inside kill_tree
    ktab,          \* the host's processes as kill_tree meets them
    kenum,         \* parent.children(recursive=True) as it was returned
    kleft,         \* the processes the running loop of kill_tree has to visit
    kwait,         \* time spent in psutil.wait_procs
    ksig           \* history: the signals kill_tree sent, in order

supVars   == <<pc, sp, widx, frames, lock, handlersInstalled>>
regVars   == <<cleanedUp, tracked, pidFile>>
osVars    == <<alive, ppid, forks, listening, observerLog>>
timeVars  == <<elapsed, wake>>
cfgVars   == <<N, hostBound, port>>
histVars  == <<launched, sigCount, failed, killPasses, passTargets, killed,
               obsExitAt>>
allocVars == <<returned, probedBound>>
reapVars  == <<rpc, ridx, procs, killedPids, scanOut, file0, sig1, sig2>>
envVars   == <<epc, envParent, envOver, envChild>>
\* the calls followed on their own besides the allocator and the reaper
killVars  == <<kpc, ktab, kenum, kleft, kwait, ksig>>
callVars  == <<envVars, killVars>>
\* what the steps of a supervisor run leave alone
auxVars   == <<allocVars, reapVars, callVars>>
\* what a call of find_available_port or cleanup_orphans followed on its own
\* leaves alone: the supervisor run, but for the bound ports and the file
runVars   == <<supVars, cleanedUp, tracked, osVars, timeVars, N, port,
               histVars, sentinelAt, reapCalls, callVars>>
vars      == <<supVars, regVars, osVars, timeVars, cfgVars, histVars,
               sentinelAt, reapCalls, auxVars>>

----------------------------------------------------------------------------
(* Bounds of the model                                                     *)

MaxWorkers == 2
MaxForks == 1
MaxSignals == 1
\* config.server_wait (90 s) and the log gate's timeout (300 s), scaled down
PortTimeout == 2
LogTimeout == 4
\* find_available_port's max_attempts (100), scaled down
MaxAttempts == 2
\* find_available_port calls made one after the other
MaxCalls == 2
\* processes cleanup_orphans may meet besides the earlier supervisor and
\* itself; also the most lines the Recovery File it reads holds
MaxOrphans == 2
\* processes kill_tree may meet besides its caller and its target
MaxKin == 2

(* Program constants                                                       *)

PortPoll == 1
LogPoll == 2
SecondaryOffset == 8
StartPort == 17171
GracePeriod == 3

NoPort == -1

ServerPid == 1
ObserverPid == 2
WorkerPid(i) == 2 + i
MaxRoots == 2 + MaxWorkers
WorkerPids == {WorkerPid(i) : i \in 1..MaxWorkers}
AllPids == 1..(MaxRoots + MaxForks)

Range(s) == {s[i] : i \in 1..Len(s)}

IdleFrame == [cpc |-> "none", ci |-> 0, kset |-> {}]
CallCleanup == [cpc |-> "acquire", ci |-> 0, kset |-> {}]

NoFile == [exists |-> FALSE, lines |-> <<>>]

\* f"{proc.pid}\n" as process_manager.py writes it, pgrep's output lines
PidText == <<"1", "2", "3", "4", "5", "6">>

\* int(line.strip()); NotAPid stands for the ValueError
NotAPid == 0
ParsePid(l) ==
    IF \E q \in 1..Len(PidText) : PidText[q] = l
    THEN CHOOSE q \in 1..Len(PidText) : PidText[q] = l
    ELSE NotAPid

\* variant: the file is written before the new process is appended
PidLinesBeforeAppend(ps) ==
    [i \in 1..(Len(ps) - 1) |-> PidText[ps[i]]]

\* for proc in self._processes: f.write(f"{proc.pid}\n")
PidLines(ps) == [i \in 1..Len(ps) |-> PidText[ps[i]]]

\* the Recovery File an earlier run that was killed has left behind
StaleFile == [exists |-> TRUE, lines |-> PidLines(<<1>>)]

\* variant: the list and the file are changed without the lock
WithoutLock(owner) == 0

\* with self._lock: the lock is held by the frame that took it
WithLock(owner) == owner

\* open(self._pid_file, "w"): the file exists and is empty
Truncated == [exists |-> TRUE, lines |-> <<>>]


----------------------------------------------------------------------------
(* port.py                                                                 *)

\* can_bind_port: the bind succeeds unless the port is bound already
CanBindPort(p, b) == p \notin b

\* variant: the secondary port is not probed
ScanPortsPrimaryOnly(offset, b) ==
    IF \E k \in offset..(MaxAttempts - 1) : (StartPort + k) \notin b
    THEN StartPort + CHOOSE k \in offset..(MaxAttempts - 1) :
             /\ (StartPort + k) \notin b
             /\ \A j \in offset..(k - 1) : (StartPort + j) \in b
    ELSE NoPort

\* variant: the search falls back to the first candidate instead of raising
ScanPortsFallback(offset, b) ==
    IF \E k \in offset..(MaxAttempts - 1) :
          (StartPort + k) \notin b /\ (StartPort + k + SecondaryOffset) \notin b
    THEN StartPort + CHOOSE k \in offset..(MaxAttempts - 1) :
             /\ (StartPort + k) \notin b /\ (StartPort + k + SecondaryOffset) \notin b
             /\ \A j \in offset..(k - 1) :
                   (StartPort + j) \in b \/ (StartPort + j + SecondaryOffset) \in b
    ELSE StartPort + offset

\* find_available_port: the first offset whose port and port + 8 both bind
RECURSIVE ScanPorts(_, _)
ScanPorts(offset, b) ==
    IF offset >= MaxAttempts THEN NoPort
    ELSE LET p == StartPort + offset IN
         IF CanBindPort(p, b) /\ CanBindPort(p + SecondaryOffset, b)
         THEN p
         ELSE ScanPorts(offset + 1, b)

FindAvailablePort(b) == ScanPorts(0, b)

\* the number of candidates find_available_port's loop has examined when it ends
RECURSIVE ScanCount(_, _)
ScanCount(offset, b) ==
    IF offset >= MaxAttempts THEN offset
    ELSE LET p == StartPort + offset IN
         IF CanBindPort(p, b) /\ CanBindPort(p + SecondaryOffset, b)
         THEN offset + 1
         ELSE ScanCount(offset + 1, b)

Examined(b) == ScanCount(0, b)

\* variant: a probe whose bind succeeded keeps its socket
AfterProbeLingering(p, b) == b \cup {p}

\* can_bind_port(p) has returned: finally: sock.close()
AfterProbe(p, b) == b

\* the ports bound on the host when find_available_port ends, by return or
\* by RuntimeError: every probe it made is over
RECURSIVE AfterScan(_, _)
AfterScan(offset, b) ==
    IF offset >= MaxAttempts THEN b
    ELSE LET p == StartPort + offset
             b1 == AfterProbe(p, b)
             b2 == IF CanBindPort(p, b)
                   THEN AfterProbe(p + SecondaryOffset, b1) ELSE b1 IN
         IF CanBindPort(p, b) /\ CanBindPort(p + SecondaryOffset, b1)
         THEN b2
         ELSE AfterScan(offset + 1, b2)

\* variant: the loop without its deadline
PortPollNoDeadline(t, connectable) == IF connectable THEN "ready" ELSE "sleep"

\* one iteration of wait_for_port's loop, t seconds after its start
PortPollResult(t, connectable) ==
    IF ~(t < PortTimeout) THEN "timeout"
    ELSE IF connectable THEN "ready"
    ELSE "sleep"

(* harness.py                                                              *)

\* variant: the loop never looks for the sentinel
LogPollNoSentinel(t, exited, text) ==
    IF ~(t < LogTimeout) THEN "timeout"
    ELSE IF exited THEN "died"
    ELSE "sleep"

\* variant: the loop without the proc.poll() test
LogPollNoLiveness(t, exited, text) ==
    IF ~(t < LogTimeout) THEN "timeout"
    ELSE IF text = "sentinel" THEN "ready"
    ELSE "sleep"

\* variant: the loop falls through at the deadline instead of raising
LogPollRunsOn(t, exited, text) ==
    IF ~(t < LogTimeout) THEN "ready"
    ELSE IF exited THEN "died"
    ELSE IF text = "sentinel" THEN "ready"
    ELSE "sleep"

\* variant: the log opened for appending
OpenForAppend(text) == IF text = "absent" THEN "empty" ELSE text

\* start_process: open(log_file, "w") creates the file or empties it
OpenForWrite(text) == "empty"

\* log_path.read_text(): the sentinel line of an earlier run reads like the
\* one this run's observer writes
ReadText(text) == IF text = "stale" THEN "sentinel" ELSE text

\* one iteration of _wait_for_observer_table's loop, t seconds after its start
LogPollResult(t, exited, text) ==
    IF ~(t < LogTimeout) THEN "timeout"
    ELSE IF exited THEN "died"
    ELSE IF text = "sentinel" THEN "ready"
    ELSE "sleep"

\* variant: the gate is entered whatever headless_count is
AfterObserverAlwaysGate(n) == "gate_log"
\* variant: the log gate is never run
AfterObserverNeverGate(n) == IF n > 0 THEN "start_workers" ELSE "await_observer"

\* main: the log gate and the worker loops run only if headless_count > 0
AfterObserverStart(n) == IF n > 0 THEN "gate_log" ELSE "await_observer"

(* The process table of the host                                           *)

ChildrenOf(S) == {q \in alive : ppid[q] \in S}

RECURSIVE DescFrom(_, _)
DescFrom(S, d) ==
    IF d = 0 \/ S = {} THEN {}
    ELSE LET c == ChildrenOf(S) IN c \cup DescFrom(c, d - 1)

\* psutil.Process(p).children(recursive=True)
Descendants(p) == DescFrom({p}, MaxForks)

\* the children of an exited process are re-parented away from it
Reparent(D) == [q \in AllPids |-> IF ppid[q] \in D THEN 0 ELSE ppid[q]]

\* variant: kill_tree without the forced kill
ForceKilledNone(S) == {}

\* kill_tree: what wait_procs reports alive after the grace period is killed
ForceKilled(S) == S \cap alive

\* variant: the kill pass takes every process for exited
NeedsKillNever(p) == FALSE

\* cleanup: proc.poll() is None
NeedsKill(p) == p \in alive

\* the stage of the orchestrator a position of main() belongs to
StageOf(p) ==
    CASE p \in {"construct", "setup"} -> "Setup"
      [] p = "alloc_port" -> "AllocatePort"
      [] p = "start_server" -> "StartServer"
      [] p = "gate_port" -> "GateOnPort"
      [] p = "start_observer" -> "StartPresentationProcess"
      [] p = "gate_log" -> "GateOnLog"
      [] p = "start_workers" -> "StartWorkers"
      [] p = "await_observer" -> "AwaitPresentationExit"
      [] OTHER -> "Cleanup"

TryPcs == {"setup", "alloc_port", "start_server", "gate_port", "start_observer",
           "gate_log", "start_workers", "await_observer"}
SpawnPcs == {"start_server", "start_observer", "start_workers"}

Top == frames[Len(frames)]
MainRuns == Len(frames) = 1 /\ pc # "exited"

----------------------------------------------------------------------------
\* no find_available_port call is followed on its own
AllocIdle == returned = <<>> /\ probedBound = {}

\* no cleanup_orphans call is followed on its own
ReapIdle ==
    /\ rpc = "idle" /\ ridx = 0 /\ procs = <<>> /\ killedPids = {}
    /\ scanOut = <<>> /\ file0 = NoFile /\ sig1 = {} /\ sig2 = {}

\* the environment variables followed: the RunMarker, one the callers
\* override (harness.py:223-231) and one they leave to os.environ
RunMarker == "XMAGE_AI_HARNESS"
EnvKeys == {RunMarker, "XMAGE_AI_HARNESS_PORT", "PATH"}
Unset == "unset"
EnvVals == {"1", "0"}
Environments == [EnvKeys -> EnvVals \cup {Unset}]
NoEnv == [k \in EnvKeys |-> Unset]

\* no start_process environment merge is followed on its own
EnvIdle ==
    /\ epc = "idle" /\ envParent = NoEnv /\ envOver = NoEnv
    /\ envChild = NoEnv

\* no kill_tree call is followed on its own
KillIdle ==
    /\ kpc = "idle" /\ ktab = <<>> /\ kenum = {} /\ kleft = {}
    /\ kwait = 0 /\ ksig = <<>>

Init ==
    /\ pc = "construct" /\ sp = "none" /\ widx = 0
    /\ frames = <<IdleFrame>> /\ lock = 0 /\ handlersInstalled = FALSE
    /\ cleanedUp = FALSE /\ tracked = <<>> /\ pidFile \in {NoFile, StaleFile}
    /\ alive = {} /\ ppid = [q \in AllPids |-> 0] /\ forks = 0
    /\ listening = FALSE /\ observerLog \in {"absent", "stale"}
    /\ elapsed = 0 /\ wake = 0
    /\ N \in 0..MaxWorkers
    /\ hostBound \in {{StartPort + SecondaryOffset},
                      StartPort..(StartPort + MaxAttempts - 1)}
    /\ port = NoPort
    /\ launched = {} /\ sigCount = 0 /\ failed = "none" /\ killPasses = 0
    /\ passTargets = {} /\ killed = {} /\ obsExitAt = -1
    /\ sentinelAt = -1 /\ reapCalls = 0
    /\ AllocIdle /\ ReapIdle /\ EnvIdle /\ KillIdle

(* The spawned processes, which run on their own                           *)

\* a process exits by itself (or on a signal sent to it)
ProcExit(p) ==
    /\ pc # "exited" /\ p \in alive
    /\ alive' = alive \ {p}
    /\ ppid' = Reparent({p})
    /\ listening' = (listening /\ p # ServerPid)
    /\ obsExitAt' = IF p = ObserverPid /\ pc = "gate_log" THEN elapsed ELSE obsExitAt
    /\ UNCHANGED <<forks, observerLog, supVars, regVars, timeVars, cfgVars,
                   launched, sigCount, failed, killPasses, passTargets, killed>>
    /\ UNCHANGED <<sentinelAt, reapCalls, auxVars>>

\* a process starts a child of its own (a worker script its Java skeleton)
ProcFork(p) ==
    /\ pc # "exited" /\ p \in alive /\ forks < MaxForks
    /\ LET c == MaxRoots + forks + 1 IN
        /\ alive' = alive \cup {c}
        /\ ppid' = [ppid EXCEPT ![c] = p]
    /\ forks' = forks + 1
    /\ UNCHANGED <<listening, observerLog, supVars, regVars, timeVars, cfgVars,
                   histVars>>
    /\ UNCHANGED <<sentinelAt, reapCalls, auxVars>>

\* the server has bound its listener (the bind fails on a port that another
\* process holds)
ServerListen ==
    /\ pc # "exited" /\ ServerPid \in alive /\ ~listening
    /\ port \notin hostBound
    /\ listening' = TRUE
    /\ UNCHANGED <<alive, ppid, forks, observerLog, supVars, regVars, timeVars,
                   cfgVars, histVars>>
    /\ UNCHANGED <<sentinelAt, reapCalls, auxVars>>

\* another process of the host (the server of a second harness run that
\* probed the same port free) binds config.port and listens on it; nothing
\* reads the host's ports once the port gate is over
ForeignListen ==
    /\ pc \in {"start_server", "gate_port"} /\ ~listening
    /\ port \notin hostBound
    /\ hostBound' = hostBound \cup {port}
    /\ UNCHANGED <<N, port, supVars, regVars, osVars, timeVars, histVars>>
    /\ UNCHANGED <<sentinelAt, reapCalls, auxVars>>

\* the observer has created the table and logged the sentinel line
ObserverReady ==
    /\ pc # "exited" /\ ObserverPid \in alive
    /\ observerLog \in {"empty", "stale"}
    /\ observerLog' = "sentinel"
    /\ sentinelAt' = IF pc = "gate_log" THEN elapsed ELSE sentinelAt
    /\ UNCHANGED <<alive, ppid, forks, listening, supVars, regVars, timeVars,
                   cfgVars, histVars>>
    /\ UNCHANGED <<reapCalls, auxVars>>

----------------------------------------------------------------------------
(* harness.py main(): the stages                                           *)

\* a stage raises or reports failure: control goes to the finally block
Fail(reason) ==
    /\ pc' = "finally" /\ frames' = <<CallCleanup>>
    /\ failed' = reason
    /\ UNCHANGED <<sp, widx, lock, handlersInstalled>>

\* variant: __init__ without the self._cleanup_orphans() call
ReapedNever(n) == n

\* __init__ calls self._cleanup_orphans() once, before anything else it does
ReapedAfterConstruct(n) == n + 1

\* variant: the constructor leaves the default signal dispositions
HandlersLeftDefault == FALSE

\* self._setup_signal_handlers(); atexit.register(self.cleanup): the last two
\* statements of __init__
HandlersSet == TRUE

\* ProcessManager(): orphan reaping (the Recovery File of an earlier run is
\* removed if there is one; no process of an earlier run is on the host),
\* signal handlers, atexit finalizer
Construct ==
    /\ MainRuns /\ pc = "construct"
    /\ reapCalls' = ReapedAfterConstruct(reapCalls)
    /\ pidFile' = NoFile
    /\ pc' = "setup" /\ handlersInstalled' = HandlersSet
    /\ UNCHANGED <<sp, widx, frames, lock, cleanedUp, tracked, osVars,
                   timeVars, cfgVars, histVars>>
    /\ UNCHANGED <<sentinelAt, auxVars>>

\* configuration, API keys, log directory, manifest, compilation
Setup ==
    /\ MainRuns /\ pc = "setup"
    /\ \/ /\ pc' = "alloc_port"
          /\ UNCHANGED <<sp, widx, frames, lock, handlersInstalled, failed>>
       \/ Fail("setup")
    /\ UNCHANGED <<regVars, osVars, timeVars, cfgVars, launched, sigCount,
                   killPasses, passTargets, killed, obsExitAt>>
    /\ UNCHANGED <<sentinelAt, reapCalls, auxVars>>

\* config.port = find_available_port(config.server, config.start_port)
AllocatePort ==
    /\ MainRuns /\ pc = "alloc_port"
    /\ LET p == FindAvailablePort(hostBound) IN
        \/ /\ p # NoPort
           /\ port' = p /\ pc' = "start_server"
           /\ UNCHANGED <<sp, widx, frames, lock, handlersInstalled, failed>>
        \/ /\ p = NoPort
           /\ Fail("port_exhausted") /\ UNCHANGED port
    /\ UNCHANGED <<N, hostBound, regVars, osVars, timeVars, launched, sigCount,
                   killPasses, passTargets, killed, obsExitAt>>
    /\ UNCHANGED <<sentinelAt, reapCalls, auxVars>>

\* variant: a process that has died is started again in place of the next
CurrentSpawnReplacesDead ==
    IF launched \ alive # {}
    THEN CHOOSE p \in launched \ alive : TRUE
    ELSE CASE pc = "start_server" -> ServerPid
           [] pc = "start_observer" -> ObserverPid
           [] OTHER -> WorkerPid(widx)

\* the process the start_process call at this position spawns
CurrentSpawn ==
    CASE pc = "start_server" -> ServerPid
      [] pc = "start_observer" -> ObserverPid
      [] OTHER -> WorkerPid(widx)

\* start_process: open(log_file, "w") or Popen raises, nothing is spawned
StartProcessRaises ==
    /\ MainRuns /\ pc \in SpawnPcs /\ sp = "none"
    /\ Fail("spawn")
    /\ UNCHANGED <<regVars, osVars, timeVars, cfgVars, launched, sigCount,
                   killPasses, passTargets, killed, obsExitAt>>
    /\ UNCHANGED <<sentinelAt, reapCalls, auxVars>>

\* start_process: the log file is truncated and Popen returns the new process
StartProcessPopen ==
    /\ MainRuns /\ pc \in SpawnPcs /\ sp = "none"
    /\ sp' = "spawned"
    /\ alive' = alive \cup {CurrentSpawn}
    /\ launched' = launched \cup {CurrentSpawn}
    /\ observerLog' = IF pc = "start_observer" THEN OpenForWrite(observerLog)
                      ELSE observerLog
    /\ sentinelAt' = IF pc = "start_workers" THEN -1 ELSE sentinelAt
    /\ UNCHANGED <<pc, widx, frames, lock, handlersInstalled, ppid, forks,
                   listening, regVars, timeVars, cfgVars, sigCount, failed,
                   killPasses, passTargets, killed, obsExitAt>>
    /\ UNCHANGED <<reapCalls, auxVars>>

\* start_process: with self._lock
StartProcessLock ==
    /\ MainRuns /\ pc \in SpawnPcs /\ sp = "spawned" /\ lock = 0
    /\ lock' = WithLock(1) /\ sp' = "locked"
    /\ UNCHANGED <<pc, widx, frames, handlersInstalled, regVars, osVars,
                   timeVars, cfgVars, histVars>>
    /\ UNCHANGED <<sentinelAt, reapCalls, auxVars>>

\* start_process: append; _write_pid_file opens the file for writing
StartProcessOpen ==
    /\ MainRuns /\ pc \in SpawnPcs /\ sp = "locked"
    /\ tracked' = Append(tracked, CurrentSpawn)
    /\ pidFile' = Truncated
    /\ sp' = "opened"
    /\ UNCHANGED <<pc, widx, frames, lock, handlersInstalled, cleanedUp,
                   osVars, timeVars, cfgVars, histVars>>
    /\ UNCHANGED <<sentinelAt, reapCalls, auxVars>>

\* start_process: the lines are written and the file closed, the lock is
\* released; then main() goes on
StartProcessTrack ==
    /\ MainRuns /\ pc \in SpawnPcs /\ sp = "opened"
    /\ pidFile' = [exists |-> TRUE, lines |-> PidLines(tracked)]
    /\ lock' = 0 /\ sp' = "none"
    /\ \/ /\ pc = "start_server"
          /\ pc' = "gate_port" /\ elapsed' = 0 /\ wake' = 0
          /\ UNCHANGED <<widx, obsExitAt, sentinelAt>>
       \/ /\ pc = "start_observer"
          /\ pc' = AfterObserverStart(N) /\ elapsed' = 0 /\ wake' = 0
          /\ obsExitAt' = IF ObserverPid \in alive THEN -1 ELSE 0
          /\ sentinelAt' = IF N > 0 /\ observerLog = "sentinel" THEN 0 ELSE -1
          /\ UNCHANGED widx
       \/ /\ pc = "start_workers" /\ widx < N
          /\ widx' = widx + 1
          /\ UNCHANGED <<pc, timeVars, obsExitAt, sentinelAt>>
       \/ /\ pc = "start_workers" /\ widx >= N
          /\ pc' = "await_observer"
          /\ UNCHANGED <<widx, timeVars, obsExitAt, sentinelAt>>
    /\ UNCHANGED <<frames, handlersInstalled, cleanedUp, tracked, osVars,
                   cfgVars, launched, sigCount, failed, killPasses,
                   passTargets, killed>>
    /\ UNCHANGED <<reapCalls, auxVars>>

\* is_port_in_use: connect_ex succeeds when any process of the host listens
\* on the port
IsPortInUse == listening \/ port \in hostBound

\* wait_for_port: one iteration of the loop
GatePortPoll ==
    /\ MainRuns /\ pc = "gate_port" /\ elapsed >= wake
    /\ LET r == PortPollResult(elapsed, IsPortInUse) IN
        \/ /\ r = "timeout" /\ Fail("port_timeout") /\ UNCHANGED timeVars
        \/ /\ r = "ready" /\ pc' = "start_observer"
           /\ UNCHANGED <<sp, widx, frames, lock, handlersInstalled, failed,
                          timeVars>>
        \/ /\ r = "sleep" /\ wake' = elapsed + PortPoll
           /\ UNCHANGED <<supVars, failed, elapsed>>
    /\ UNCHANGED <<regVars, osVars, cfgVars, launched, sigCount, killPasses,
                   passTargets, killed, obsExitAt>>
    /\ UNCHANGED <<sentinelAt, reapCalls, auxVars>>

\* _wait_for_observer_table: one iteration of the loop
GateLogPoll ==
    /\ MainRuns /\ pc = "gate_log" /\ elapsed >= wake
    /\ LET r == LogPollResult(elapsed, ObserverPid \notin alive,
                              ReadText(observerLog)) IN
        \/ /\ r = "timeout" /\ Fail("log_timeout")
           /\ UNCHANGED <<timeVars, obsExitAt>>
        \/ /\ r = "died" /\ Fail("observer_died")
           /\ UNCHANGED <<timeVars, obsExitAt>>
        \/ /\ r = "ready" /\ pc' = "start_workers" /\ widx' = 1
           /\ elapsed' = 0 /\ wake' = 0 /\ obsExitAt' = -1
           /\ UNCHANGED <<sp, frames, lock, handlersInstalled, failed>>
        \/ /\ r = "sleep" /\ wake' = elapsed + LogPoll
           /\ UNCHANGED <<supVars, failed, elapsed, obsExitAt>>
    /\ UNCHANGED <<regVars, osVars, cfgVars, launched, sigCount, killPasses,
                   passTargets, killed>>
    /\ UNCHANGED <<sentinelAt, reapCalls, auxVars>>

\* time.sleep inside a gate: a second passes
Tick ==
    /\ MainRuns /\ pc \in {"gate_port", "gate_log"} /\ elapsed < wake
    /\ elapsed' = elapsed + 1
    /\ UNCHANGED <<wake, supVars, regVars, osVars, cfgVars, histVars>>
    /\ UNCHANGED <<sentinelAt, reapCalls, auxVars>>

\* variant: the wait returns when any process the run started has exited
WaitReturnsOnAnyExit(p, live) == launched \ live # {}

\* Popen.wait() of process p returns
WaitReturns(p, live) == p \notin live

\* observer_proc.wait() returns; return 0 enters the finally block
AwaitObserver ==
    /\ MainRuns /\ pc = "await_observer" /\ WaitReturns(ObserverPid, alive)
    /\ pc' = "finally" /\ frames' = <<CallCleanup>>
    /\ UNCHANGED <<sp, widx, lock, handlersInstalled, regVars, osVars, timeVars,
                   cfgVars, histVars>>
    /\ UNCHANGED <<sentinelAt, reapCalls, auxVars>>

----------------------------------------------------------------------------
(* process_manager.py: ProcessManager.cleanup and kill_tree                *)

\* variant: cleanup without the one-shot flag
AlreadyCleanedNever == FALSE

\* cleanup: if self._cleaned_up: return
AlreadyCleaned == cleanedUp

\* where main() is once a SystemExit raised by a handler has unwound to it
AfterSystemExit(p) ==
    CASE p \in TryPcs -> "finally"
      [] p = "finally" -> "atexit"
      [] OTHER -> "exited"

\* where main() is once its own cleanup() call has returned
AfterMainCleanup(p) == IF p = "finally" THEN "atexit" ELSE "exited"

\* cleanup() returns in the top frame: main() goes on to its next cleanup()
\* call (the finally block, then the atexit finalizer) or exits; a handler
\* calls sys.exit(0), whose SystemExit unwinds every frame down to main()
CleanupReturns ==
    /\ pc' = IF Len(frames) = 1 THEN AfterMainCleanup(pc) ELSE AfterSystemExit(pc)
    /\ frames' = <<IF pc' = "exited" THEN IdleFrame ELSE CallCleanup>>
    /\ sp' = IF Len(frames) = 1 THEN sp ELSE "none"
    /\ lock' = 0

\* with self._lock
CleanupLock ==
    /\ pc # "exited" /\ Top.cpc = "acquire" /\ lock = 0
    /\ lock' = Len(frames)
    /\ frames' = [frames EXCEPT ![Len(frames)].cpc = "locked"]
    /\ UNCHANGED <<pc, sp, widx, handlersInstalled, regVars, osVars, timeVars,
                   cfgVars, histVars>>
    /\ UNCHANGED <<sentinelAt, reapCalls, auxVars>>

\* the one-shot flag: return at once, or set it and begin the kill pass
CleanupCheck ==
    /\ pc # "exited" /\ Top.cpc = "locked"
    /\ \/ /\ AlreadyCleaned
          /\ CleanupReturns
          /\ UNCHANGED <<cleanedUp, killPasses, passTargets>>
       \/ /\ ~AlreadyCleaned
          /\ cleanedUp' = TRUE
          /\ frames' = [frames EXCEPT ![Len(frames)].cpc = "pass",
                                      ![Len(frames)].ci = 1]
          /\ killPasses' = killPasses + 1
          /\ passTargets' = Range(tracked)
          /\ UNCHANGED <<pc, sp, lock>>
    /\ UNCHANGED <<widx, handlersInstalled, tracked, pidFile, osVars, timeVars,
                   cfgVars, launched, sigCount, failed, killed, obsExitAt>>
    /\ UNCHANGED <<sentinelAt, reapCalls, auxVars>>

\* the kill pass looks at the next tracked process; kill_tree enumerates the
\* tree of a live one and sends every member the termination request
CleanupPass ==
    /\ pc # "exited" /\ Top.cpc = "pass" /\ Top.ci <= Len(tracked)
    /\ LET p == tracked[Top.ci] IN
        \/ /\ NeedsKill(p)
           /\ frames' = [frames EXCEPT ![Len(frames)].cpc = "kt_wait",
                                       ![Len(frames)].kset = {p} \cup Descendants(p)]
        \/ /\ ~NeedsKill(p)
           /\ frames' = [frames EXCEPT ![Len(frames)].ci = Top.ci + 1]
    /\ UNCHANGED <<pc, sp, widx, lock, handlersInstalled, regVars, osVars,
                   timeVars, cfgVars, histVars>>
    /\ UNCHANGED <<sentinelAt, reapCalls, auxVars>>

\* kill_tree: the grace period is over, whatever is still alive is killed
KillTreeReap ==
    /\ pc # "exited" /\ Top.cpc = "kt_wait"
    /\ LET D == ForceKilled(Top.kset) IN
        /\ alive' = alive \ D
        /\ ppid' = Reparent(D)
        /\ listening' = (listening /\ ServerPid \notin D)
    /\ killed' = killed \cup {tracked[Top.ci]}
    /\ frames' = [frames EXCEPT ![Len(frames)].cpc = "pass",
                                ![Len(frames)].ci = Top.ci + 1,
                                ![Len(frames)].kset = {}]
    /\ UNCHANGED <<pc, sp, widx, lock, handlersInstalled, regVars, forks,
                   observerLog, timeVars, cfgVars, launched, sigCount, failed,
                   killPasses, passTargets, obsExitAt>>
    /\ UNCHANGED <<sentinelAt, reapCalls, auxVars>>

\* the list is cleared, the Recovery File removed, the lock released
CleanupFinish ==
    /\ pc # "exited" /\ Top.cpc = "pass" /\ Top.ci > Len(tracked)
    /\ tracked' = <<>> /\ pidFile' = NoFile
    /\ CleanupReturns
    /\ UNCHANGED <<widx, handlersInstalled, cleanedUp, osVars, timeVars,
                   cfgVars, histVars>>
    /\ UNCHANGED <<sentinelAt, reapCalls, auxVars>>

(* Signals                                                                 *)

\* SIGINT, SIGTERM or SIGHUP: _signal_handler starts on top of the running
\* frame and calls cleanup()
Signal ==
    /\ handlersInstalled /\ pc # "exited" /\ sigCount < MaxSignals
    /\ frames' = Append(frames, CallCleanup)
    /\ sigCount' = sigCount + 1
    /\ UNCHANGED <<pc, sp, widx, lock, handlersInstalled, regVars, osVars,
                   timeVars, cfgVars, launched, failed, killPasses, passTargets,
                   killed, obsExitAt>>
    /\ UNCHANGED <<sentinelAt, reapCalls, auxVars>>

\* a signal before the handlers are installed ends the supervisor at once
SignalDefault ==
    /\ ~handlersInstalled /\ pc = "construct"
    /\ pc' = "exited"
    /\ UNCHANGED <<sp, widx, frames, lock, handlersInstalled, regVars, osVars,
                   timeVars, cfgVars, histVars>>
    /\ UNCHANGED <<sentinelAt, reapCalls, auxVars>>

----------------------------------------------------------------------------
Supervisor ==
    \/ Construct \/ Setup \/ AllocatePort
    \/ StartProcessRaises \/ StartProcessPopen \/ StartProcessLock
    \/ StartProcessOpen \/ StartProcessTrack
    \/ GatePortPoll \/ GateLogPoll \/ Tick \/ AwaitObserver
    \/ CleanupLock \/ CleanupCheck \/ CleanupPass \/ KillTreeReap
    \/ CleanupFinish

Environment ==
    \/ \E p \in AllPids : ProcExit(p)
    \/ \E p \in AllPids : ProcFork(p)
    \/ ServerListen \/ ForeignListen \/ ObserverReady
    \/ Signal \/ SignalDefault

Next == Supervisor \/ Environment

Spec == Init /\ [][Next]_vars

\* the supervisor's thread runs whenever it can
FairSpec == Spec /\ WF_vars(Supervisor)

----------------------------------------------------------------------------
(* port.py: find_available_port called several times in a row on a host    *)
(* whose ports are bound and released by other processes in between        *)

\* no supervisor run is under way
RunAtRest ==
    /\ pc = "construct" /\ sp = "none" /\ widx = 0
    /\ frames = <<IdleFrame>> /\ lock = 0 /\ handlersInstalled = FALSE
    /\ cleanedUp = FALSE /\ tracked = <<>>
    /\ alive = {} /\ ppid = [q \in AllPids |-> 0] /\ forks = 0
    /\ listening = FALSE /\ observerLog = "absent"
    /\ elapsed = 0 /\ wake = 0 /\ N = 0 /\ port = NoPort
    /\ launched = {} /\ sigCount = 0 /\ failed = "none" /\ killPasses = 0
    /\ passTargets = {} /\ killed = {} /\ obsExitAt = -1
    /\ sentinelAt = -1 /\ reapCalls = 0

\* no call but the one the specification follows is under way
CallsIdle == EnvIdle /\ KillIdle

\* the ports find_available_port may probe
Candidates == StartPort..(StartPort + MaxAttempts - 1)
PortUniverse == Candidates \cup {p + SecondaryOffset : p \in Candidates}

PortInit ==
    /\ RunAtRest /\ ReapIdle /\ CallsIdle /\ pidFile = NoFile
    /\ hostBound \in SUBSET PortUniverse
    /\ returned = <<>> /\ probedBound = {}

\* find_available_port(host, start_port): the result, NoPort for RuntimeError
PortCall ==
    /\ Len(returned) < MaxCalls
    /\ returned' = Append(returned, FindAvailablePort(hostBound))
    /\ probedBound' = hostBound
    /\ hostBound' = AfterScan(0, hostBound)
    /\ UNCHANGED <<pidFile, runVars, reapVars>>

\* some process of the host binds a free port
PortBind(q) ==
    /\ q \notin hostBound
    /\ hostBound' = hostBound \cup {q}
    /\ UNCHANGED <<pidFile, runVars, reapVars, allocVars>>

\* some process of the host closes the socket it had bound
PortRelease(q) ==
    /\ q \in hostBound
    /\ hostBound' = hostBound \ {q}
    /\ UNCHANGED <<pidFile, runVars, reapVars, allocVars>>

PortNext ==
    \/ PortCall
    \/ \E q \in PortUniverse : PortBind(q)
    \/ \E q \in PortUniverse : PortRelease(q)

PortSpec == PortInit /\ [][PortNext]_vars

----------------------------------------------------------------------------
(* process_manager.py: cleanup_orphans, run by a starting supervisor or by *)
(* the cleanup CLI on a host where an earlier run has left a Recovery File *)
(* and processes behind, or is still under way                             *)

\* the supervisor of the earlier run, and the process running cleanup_orphans
PrevSupervisor == 1
MyPid == 2
Others == 3..(2 + MaxOrphans)
ReapPids == 1..(2 + MaxOrphans)

\* the processes of the host: a process of the harness carries the RunMarker,
\* has a command line the pattern matches and is in the process group of the
\* supervisor that started it; an unrelated process has neither marker nor
\* group in common with them, its command line may match the pattern all the
\* same ("lookalike"), and it may belong to another user ("restricted"); the
\* process that runs cleanup_orphans may have been started by one of them
Kinds == {"dead", "harness", "foreign", "lookalike", "restricted"}

ProcOfKind(kind, q, par) ==
    [live    |-> kind # "dead",
     marker  |-> kind = "harness",
     parent  |-> IF kind = "harness" THEN par ELSE 0,
     pgid    |-> IF kind = "harness" THEN PrevSupervisor ELSE q,
     matches |-> kind \in {"harness", "lookalike", "restricted"},
     denies  |-> kind = "restricted"]

ProcTables ==
    {[q \in ReapPids |->
        IF q = PrevSupervisor
        THEN [ProcOfKind("foreign", q, 0) EXCEPT !.live = ownerLive]
        ELSE IF q = MyPid
        THEN [ProcOfKind("foreign", q, 0) EXCEPT
                 !.matches = myMatch,
                 !.parent = IF below /\ k[3] # "dead" THEN 3 ELSE 0]
        ELSE ProcOfKind(k[q], q, IF q > 3 /\ nested /\ k[q - 1] = "harness"
                                 THEN q - 1 ELSE 0)] :
        k \in [Others -> Kinds], ownerLive \in BOOLEAN, myMatch \in BOOLEAN,
        nested \in BOOLEAN, below \in BOOLEAN}

LineTokens == {PidText[q] : q \in Others} \cup {"x"}

\* the files of at most n lines over T that repeat no line
Files(T, n) ==
    {[exists |-> TRUE, lines |-> l] :
        l \in {f \in UNION {[1..m -> T] : m \in 0..n} :
                  \A i, j \in DOMAIN f : i # j => f[i] # f[j]}}

ReapInit ==
    /\ RunAtRest /\ AllocIdle /\ CallsIdle /\ hostBound = {}
    /\ pidFile \in {NoFile} \cup Files(LineTokens, MaxOrphans)
    /\ file0 = pidFile
    /\ procs \in ProcTables
    /\ rpc = "start" /\ ridx = 0 /\ killedPids = {} /\ scanOut = <<>>
    /\ sig1 = {} /\ sig2 = {}

\* psutil.Process(q) finds a process
Exists(q) == q \in DOMAIN procs /\ procs[q].live

RChildren(S) == {q \in ReapPids : procs[q].live /\ procs[q].parent \in S}

RECURSIVE RDescFrom(_, _)
RDescFrom(S, d) ==
    IF d = 0 \/ S = {} THEN {}
    ELSE LET c == RChildren(S) IN c \cup RDescFrom(c, d - 1)

\* kill_tree(q): the target and parent.children(recursive=True)
Tree(q) == IF Exists(q) THEN {q} \cup RDescFrom({q}, MaxOrphans) ELSE {}

\* kill_tree(q): terminate() on a process of another user raises AccessDenied,
\* which kill_tree does not catch
KillTreeRaises(q) == \E t \in Tree(q) : procs[t].denies

\* kill_tree(q): the processes that are sent a signal; the whole process
\* group of q, if it is not the caller's, then the tree
KillTreeSignals(q) ==
    IF ~Exists(q) \/ KillTreeRaises(q) THEN {}
    ELSE Tree(q) \cup
         (IF procs[q].pgid # procs[MyPid].pgid
          THEN {g \in ReapPids : procs[g].live /\ procs[g].pgid = procs[q].pgid}
          ELSE {})

\* kill_tree(q): the tree is terminated, and killed after the grace period
AfterKillTree(q) ==
    IF KillTreeRaises(q) THEN procs
    ELSE [t \in ReapPids |->
            IF t \in Tree(q) THEN [procs[t] EXCEPT !.live = FALSE] ELSE procs[t]]

\* what processing a line of the Recovery File raises before the marker test
LineException(l) ==
    IF ParsePid(l) = NotAPid THEN "ValueError"
    ELSE IF ~Exists(ParsePid(l)) THEN "NoSuchProcess"
    ELSE IF procs[ParsePid(l)].denies THEN "AccessDenied"
    ELSE "none"

\* variant: the marker is not looked at
HasMarkerAny(q) == TRUE

\* env.get("XMAGE_AI_HARNESS") == "1"
HasMarker(q) == procs[q].marker

\* variant: a line that is no number is not provided for
AbsorbedNoValueError(e) == e \in {"NoSuchProcess", "AccessDenied"}

\* except (psutil.NoSuchProcess, ValueError, psutil.AccessDenied): pass
Absorbed(e) == e \in {"NoSuchProcess", "ValueError", "AccessDenied"}

\* the process that runs cleanup_orphans has not been terminated (its
\* handlers for SIGTERM are installed only after cleanup_orphans returns)
ReaperRuns == procs[MyPid].live

\* if pid_file.exists(): open it; otherwise go on to the pattern strategy
ReapStart ==
    /\ ReaperRuns /\ rpc = "start"
    /\ rpc' = IF pidFile.exists THEN "lines" ELSE "scan"
    /\ ridx' = 1
    /\ UNCHANGED <<procs, killedPids, scanOut, file0, sig1, sig2, pidFile,
                   hostBound, runVars, allocVars>>

\* one line of the Recovery File: the pid is parsed, the process looked up,
\* its environment read, and a process that carries the marker is killed
\* with its tree; an exception the handler does not name unwinds the loop
ReapLine ==
    /\ ReaperRuns /\ rpc = "lines" /\ ridx <= Len(file0.lines)
    /\ LET l == file0.lines[ridx]
           q == ParsePid(l)
           e == LineException(l)
           hit == e = "none" /\ HasMarker(q) IN
        /\ procs' = IF hit THEN AfterKillTree(q) ELSE procs
        /\ sig1' = IF hit THEN sig1 \cup KillTreeSignals(q) ELSE sig1
        /\ killedPids' = IF hit THEN killedPids \cup {q} ELSE killedPids
        /\ rpc' = IF e = "none" \/ Absorbed(e) THEN "lines" ELSE "unwind"
    /\ ridx' = ridx + 1
    /\ UNCHANGED <<scanOut, file0, sig2, pidFile, hostBound, runVars,
                   allocVars>>

\* the file has been read to its end
ReapLinesEnd ==
    /\ ReaperRuns /\ rpc = "lines" /\ ridx > Len(file0.lines)
    /\ rpc' = "unlink"
    /\ UNCHANGED <<ridx, procs, killedPids, scanOut, file0, sig1, sig2,
                   pidFile, hostBound, runVars, allocVars>>

\* finally: pid_file.unlink(missing_ok=True)
ReapUnlink ==
    /\ ReaperRuns /\ rpc \in {"unlink", "unwind"}
    /\ pidFile' = NoFile
    /\ rpc' = IF rpc = "unwind" THEN "raised_file" ELSE "scan"
    /\ UNCHANGED <<ridx, procs, killedPids, scanOut, file0, sig1, sig2,
                   hostBound, runVars, allocVars>>

\* pgrep's output: the matching processes, in the order of their pids
RECURSIVE ScanLines(_)
ScanLines(S) ==
    IF S = {} THEN <<>>
    ELSE LET m == CHOOSE x \in S : \A y \in S : x <= y IN
         <<PidText[m]>> \o ScanLines(S \ {m})

\* subprocess.run(["pgrep", "-f", pattern], timeout=5)
ReapScan ==
    /\ ReaperRuns /\ rpc = "scan"
    /\ scanOut' = ScanLines({q \in ReapPids : procs[q].live /\ procs[q].matches})
    /\ rpc' = "pattern" /\ ridx' = 1
    /\ UNCHANGED <<procs, killedPids, file0, sig1, sig2, pidFile, hostBound,
                   runVars, allocVars>>

\* pgrep is missing or does not answer in time: OSError, TimeoutExpired
ReapScanFails ==
    /\ ReaperRuns /\ rpc = "scan"
    /\ rpc' = "done"
    /\ UNCHANGED <<ridx, procs, killedPids, scanOut, file0, sig1, sig2,
                   pidFile, hostBound, runVars, allocVars>>

\* variant: every pid pgrep printed is handed to kill_tree
PatternTargetAny(q) == q # NotAPid

\* if pid != my_pid and pid not in killed_pids
PatternTarget(q) == q # NotAPid /\ q # MyPid /\ q \notin killedPids

\* one line of pgrep's output: any pid but the caller's own and those the
\* first strategy killed is handed to kill_tree; only ValueError is caught
ReapPattern ==
    /\ ReaperRuns /\ rpc = "pattern" /\ ridx <= Len(scanOut)
    /\ LET q == ParsePid(scanOut[ridx])
           hit == PatternTarget(q) IN
        /\ procs' = IF hit THEN AfterKillTree(q) ELSE procs
        /\ sig2' = IF hit THEN sig2 \cup KillTreeSignals(q) ELSE sig2
        /\ rpc' = IF hit /\ KillTreeRaises(q) THEN "raised_scan" ELSE "pattern"
    /\ ridx' = ridx + 1
    /\ UNCHANGED <<killedPids, scanOut, file0, sig1, pidFile, hostBound,
                   runVars, allocVars>>

\* cleanup_orphans returns
ReapReturn ==
    /\ ReaperRuns /\ rpc = "pattern" /\ ridx > Len(scanOut)
    /\ rpc' = "done"
    /\ UNCHANGED <<ridx, procs, killedPids, scanOut, file0, sig1, sig2,
                   pidFile, hostBound, runVars, allocVars>>

ReapNext ==
    \/ ReapStart \/ ReapLine \/ ReapLinesEnd \/ ReapUnlink
    \/ ReapScan \/ ReapScanFails \/ ReapPattern \/ ReapReturn

ReapSpec == ReapInit /\ [][ReapNext]_vars

----------------------------------------------------------------------------
(* process_manager.py: the environment start_process hands to the process  *)
(* it spawns, for every os.environ and every env argument                  *)

\* what the rest of the model is while one start_process merge is followed
mainVars == <<supVars, regVars, osVars, timeVars, cfgVars, histVars,
              sentinelAt, reapCalls, allocVars, reapVars>>

\* merged_env = os.environ.copy(); merged_env[marker] = "1";
\* if env: merged_env.update(env)
MergedEnv(base, over) ==
    LET marked == [base EXCEPT ![RunMarker] = "1"]
    IN  [k \in EnvKeys |-> IF over[k] # Unset THEN over[k] ELSE marked[k]]

EnvInit ==
    /\ RunAtRest /\ AllocIdle /\ ReapIdle /\ KillIdle /\ pidFile = NoFile
    /\ hostBound = {}
    /\ epc = "call"
    /\ envParent \in Environments /\ envOver \in Environments
    /\ envChild = NoEnv

\* start_process up to Popen(env=merged_env)
EnvSpawn ==
    /\ epc = "call"
    /\ envChild' = MergedEnv(envParent, envOver)
    /\ epc' = "spawned"
    /\ UNCHANGED <<envParent, envOver, mainVars, killVars>>

EnvNext == EnvSpawn
EnvSpec == EnvInit /\ [][EnvNext]_vars

----------------------------------------------------------------------------
(* process_manager.py: one kill_tree(pid) call, step by step, on a host    *)
(* whose processes exit on their own at any moment                         *)

\* the process that calls kill_tree, the pid it is called on, the others
Caller == 1
Target == 2
KPids == 1..(2 + MaxKin)

\* the process tables: the target is in the caller's process group or in
\* its own; another process is a child of the target, of an earlier one or
\* of neither, in either group
KTables ==
    {t \in [KPids -> [live : BOOLEAN, parent : 0..(1 + MaxKin),
                      pgid : {Caller, Target}]] :
        /\ t[Caller] = [live |-> TRUE, parent |-> 0, pgid |-> Caller]
        /\ t[Target].parent \in {0, Caller}
        /\ \A q \in KPids \ {Caller, Target} :
              t[q].live /\ t[q].parent \in {0} \cup (Target..(q - 1))}

KillInit ==
    /\ RunAtRest /\ AllocIdle /\ ReapIdle /\ EnvIdle /\ pidFile = NoFile
    /\ hostBound = {}
    /\ kpc = "lookup" /\ ktab \in KTables
    /\ kenum = {} /\ kleft = {} /\ kwait = 0 /\ ksig = <<>>

KLive == {q \in KPids : ktab[q].live}
RECURSIVE KDescFrom(_)
KDescFrom(S) ==
    LET T == S \cup {q \in KLive : ktab[q].parent \in S}
    IN  IF T = S THEN S ELSE KDescFrom(T)
\* psutil's children(recursive=True): the live processes below q
KDescendants(q) == KDescFrom({q}) \ {q}

\* the processes of D are gone; their children are reparented
KGone(D) ==
    [q \in KPids |->
        IF q \in D THEN [ktab[q] EXCEPT !.live = FALSE]
        ELSE IF ktab[q].parent \in D THEN [ktab[q] EXCEPT !.parent = 0]
        ELSE ktab[q]]

\* variant: only the except clauses around single signals are there
KCaughtInnerOnly(step) == step \in {"pgid", "terminate", "kill"}

\* the step's NoSuchProcess or ProcessLookupError meets an except clause
KCaught(step) == step \in {"lookup", "pgid", "children", "terminate", "kill"}

\* where kill_tree is after a step that met a process already gone
KAfterGone(step, next) == IF KCaught(step) THEN next ELSE "raised"

\* one signal sent: to the processes addressed, hit the live ones among them
KSent(sig, to) == Append(ksig, [sig |-> sig, to |-> to, hit |-> to \cap KLive])

\* variant: wait_procs without a timeout
KWaitOverNoTimeout(waited, left) == left = {}

\* psutil.wait_procs(children + [parent], timeout=3) returns
KWaitOver(waited, left) == left = {} \/ waited >= GracePeriod

\* a process of the host exits on its own
KExit(q) ==
    /\ kpc \notin {"idle", "returned", "raised"}
    /\ q # Caller /\ ktab[q].live
    /\ ktab' = KGone({q})
    /\ UNCHANGED <<kpc, kenum, kleft, kwait, ksig, mainVars, envVars>>

\* parent = psutil.Process(pid)
KLookup ==
    /\ kpc = "lookup"
    /\ kpc' = IF ktab[Target].live THEN "pgid"
              ELSE KAfterGone("lookup", "returned")
    /\ UNCHANGED <<ktab, kenum, kleft, kwait, ksig, mainVars, envVars>>

\* os.getpgid(pid), and os.killpg(child_pgid, SIGTERM) if the group is not
\* the caller's
KGroup ==
    /\ kpc = "pgid"
    /\ IF ~ktab[Target].live
         THEN /\ kpc' = KAfterGone("pgid", "children")
              /\ UNCHANGED ksig
         ELSE /\ kpc' = "children"
              /\ ksig' = IF ktab[Target].pgid # ktab[Caller].pgid
                         THEN KSent("TERM", {q \in KLive :
                                       ktab[q].pgid = ktab[Target].pgid})
                         ELSE ksig
    /\ UNCHANGED <<ktab, kenum, kleft, kwait, mainVars, envVars>>

\* children = parent.children(recursive=True)
KChildren ==
    /\ kpc = "children"
    /\ IF ktab[Target].live
         THEN /\ kenum' = KDescendants(Target)
              /\ kleft' = kenum'
              /\ kpc' = "terminate"
         ELSE /\ kpc' = KAfterGone("children", "returned")
              /\ UNCHANGED <<kenum, kleft>>
    /\ UNCHANGED <<ktab, kwait, ksig, mainVars, envVars>>

\* for child in children: child.terminate()
KTermChild(q) ==
    /\ kpc = "terminate" /\ q \in kleft
    /\ ksig' = KSent("TERM", {q})
    /\ kleft' = kleft \ {q}
    /\ kpc' = IF ktab[q].live THEN kpc ELSE KAfterGone("terminate", kpc)
    /\ UNCHANGED <<ktab, kenum, kwait, mainVars, envVars>>

\* parent.terminate(); wait_procs begins
KTermParent ==
    /\ kpc = "terminate" /\ kleft = {}
    /\ ksig' = KSent("TERM", {Target})
    /\ kpc' = IF ktab[Target].live THEN "wait"
              ELSE KAfterGone("terminate", "wait")
    /\ kwait' = 0
    /\ UNCHANGED <<ktab, kenum, kleft, mainVars, envVars>>

\* a second passes inside wait_procs
KTick ==
    /\ kpc = "wait"
    /\ ~KWaitOver(kwait, (kenum \cup {Target}) \cap KLive)
    /\ kwait <= GracePeriod
    /\ kwait' = kwait + 1
    /\ UNCHANGED <<kpc, ktab, kenum, kleft, ksig, mainVars, envVars>>

\* gone, alive = wait_procs(...)
KWaitEnd ==
    /\ kpc = "wait"
    /\ KWaitOver(kwait, (kenum \cup {Target}) \cap KLive)
    /\ kleft' = (kenum \cup {Target}) \cap KLive
    /\ kpc' = "kill"
    /\ UNCHANGED <<ktab, kenum, kwait, ksig, mainVars, envVars>>

\* for p in alive: p.kill()
KKill(q) ==
    /\ kpc = "kill" /\ q \in kleft
    /\ ksig' = KSent("KILL", {q})
    /\ ktab' = KGone({q} \cap KLive)
    /\ kleft' = kleft \ {q}
    /\ kpc' = IF ktab[q].live THEN kpc ELSE KAfterGone("kill", kpc)
    /\ UNCHANGED <<kenum, kwait, mainVars, envVars>>

\* kill_tree returns
KReturn ==
    /\ kpc = "kill" /\ kleft = {}
    /\ kpc' = "returned"
    /\ UNCHANGED <<ktab, kenum, kleft, kwait, ksig, mainVars, envVars>>

KillNext ==
    \/ \E q \in KPids : KExit(q)
    \/ KLookup \/ KGroup \/ KChildren
    \/ \E q \in KPids : KTermChild(q)
    \/ KTermParent \/ KTick \/ KWaitEnd
    \/ \E q \in KPids : KKill(q)
    \/ KReturn
KillSpec == KillInit /\ [][KillNext]_vars

----------------------------------------------------------------------------
(* Properties                                                              *)

\* C1: when the supervisor has exited, no process started by start_process
\* and no descendant of one is alive (every process of the model is one)
C1_NoSurvivorAtExit == pc = "exited" => alive = {}

\* the kill pass has been run to its end: the flag is set, no frame is inside
\* the pass, and what the pass is to leave behind is in place
PassFinished ==
    /\ cleanedUp
    /\ \A k \in 1..Len(frames) : frames[k].cpc \notin {"pass", "kt_wait"}
    /\ tracked = <<>> /\ ~pidFile.exists
    /\ passTargets \cap alive = {}

\* C2: a signal delivered once the handlers are installed leads to a finished
\* cleanup pass (tracked processes dead, list empty, Recovery File removed),
\* and the supervisor does not exit before that pass has finished
C2_SignalLeadsToCleanup ==
    /\ (sigCount > 0) ~> PassFinished
    /\ [](pc = "exited" /\ sigCount > 0 => PassFinished)

\* C3: a cleanup() call never waits for the registry lock while the frame
\* that holds the lock is suspended beneath it (it would wait forever)
C3_NoSelfDeadlock == Top.cpc = "acquire" => lock = 0

\* C4: the kill pass is begun at most once, and a cleanup() call made after
\* it began is never left waiting: it returns having done nothing
C4_CleanupCollapses ==
    /\ killPasses <= 1
    /\ \A k \in 1..Len(frames) :
          (cleanedUp /\ k = Len(frames) /\ frames[k].cpc = "acquire") => lock = 0

\* C5: once cleanup() has returned, every process that was tracked when the
\* pass began is dead, the tracked list is empty and the Recovery File is gone
C5_CleanupPostcondition ==
    (cleanedUp /\ lock = 0) =>
        /\ passTargets \cap alive = {}
        /\ tracked = <<>>
        /\ ~pidFile.exists

C5_Witness == cleanedUp /\ lock = 0 /\ Cardinality(killed) >= 2

\* C6: no finished cleanup pass has missed a live process that start_process
\* had launched
C6_NoLaunchedSurvivesPass == (cleanedUp /\ lock = 0) => launched \cap alive = {}

\* C7: a worker is started only when the observer's log holds the sentinel,
\* and none is started once the log gate has raised
C7_WorkersAfterSentinel ==
    /\ launched \cap WorkerPids # {} => observerLog = "sentinel"
    /\ failed \in {"observer_died", "log_timeout"} => launched \cap WorkerPids = {}

C7_Witness ==
    /\ pc = "await_observer" /\ N = MaxWorkers
    /\ launched \cap WorkerPids = {WorkerPid(i) : i \in 1..N}

SuccStage(s) ==
    CASE s = "Setup" -> "AllocatePort"
      [] s = "AllocatePort" -> "StartServer"
      [] s = "StartServer" -> "GateOnPort"
      [] s = "GateOnPort" -> "StartPresentationProcess"
      [] s = "StartPresentationProcess" -> "GateOnLog"
      [] s = "GateOnLog" -> "StartWorkers"
      [] s = "StartWorkers" -> "AwaitPresentationExit"
      [] OTHER -> "Cleanup"

\* C8 as stated: the stage changes only to the next stage of the fixed linear
\* order or to Cleanup
C8_StrictStageOrder ==
    [][StageOf(pc') # StageOf(pc) =>
          StageOf(pc') \in {SuccStage(StageOf(pc)), "Cleanup"}]_vars

\* C8 as amended: the same, except that with no worker configured GateOnLog
\* and StartWorkers are skipped: StartPresentationProcess is then followed
\* by AwaitPresentationExit
C8_StageOrder ==
    [][StageOf(pc') # StageOf(pc) =>
          \/ StageOf(pc') = "Cleanup"
          \/ StageOf(pc') =
                IF StageOf(pc) = "StartPresentationProcess" /\ N = 0
                THEN "AwaitPresentationExit"
                ELSE SuccStage(StageOf(pc))]_vars

C8_Witness ==
    /\ pc = "exited" /\ failed = "none" /\ sigCount = 0
    /\ N > 0 /\ WorkerPid(N) \in launched

\* C9: after a stage failure no further stage is entered, and the supervisor
\* exits only with cleanup() done and every process it started dead
C9_FailureGoesToCleanup ==
    failed # "none" =>
        /\ StageOf(pc) = "Cleanup" /\ sp = "none"
        /\ pc = "exited" => (cleanedUp /\ launched \cap alive = {})

C9_Witness ==
    /\ pc = "exited" /\ failed = "observer_died"
    /\ ServerPid \in killed

\* the log gate has raised with the observer gone and no sentinel in its log
GateEndedObserverGone ==
    /\ failed \in {"observer_died", "log_timeout"}
    /\ obsExitAt >= 0 /\ observerLog # "sentinel"

\* C10 as stated: if the observer exited before the deadline, the log gate
\* raises the early-death error, within one poll interval of the exit
C10_EarlyDeathAlways ==
    (GateEndedObserverGone /\ obsExitAt < LogTimeout) =>
        /\ failed = "observer_died"
        /\ elapsed <= obsExitAt + LogPoll

\* C10 as amended: the gate ends within one poll interval of the exit, with
\* the early-death error if a poll starts before the deadline, and with the
\* timeout error only if the observer exited during the last sleep
C10_EarlyDeathOrLastSleep ==
    GateEndedObserverGone =>
        /\ elapsed <= obsExitAt + LogPoll
        /\ \/ failed = "observer_died"
           \/ failed = "log_timeout" /\ obsExitAt + LogPoll >= LogTimeout

C10_Witness == failed = "observer_died" /\ obsExitAt > 0 /\ elapsed = obsExitAt + 1

\* C11: the port gate, polling while the server it waits for has exited, does
\* not go back to sleep: a poll made with the server gone ends the gate
C11_PortGateSeesServerExit ==
    [][~(pc = "gate_port" /\ ServerPid \notin alive /\ wake' > wake)]_vars

\* the step by which _wait_for_observer_table returns or raises
GateLogEnds == pc = "gate_log" /\ Len(frames) = 1 /\ pc' # "gate_log"

\* while the log gate waits with the sentinel in the log and the observer
\* alive, no more than one poll interval has passed since the sentinel appeared
SentinelNotOverslept ==
    (pc = "gate_log" /\ sentinelAt >= 0 /\ ObserverPid \in alive) =>
        elapsed <= sentinelAt + LogPoll

\* C12 as stated: with the sentinel in the log since a time before the timeout
\* and the observer alive, the log gate ends by returning, within one poll
\* interval of the sentinel's appearance
C12_SentinelAlwaysSeen ==
    [][/\ SentinelNotOverslept
       /\ (GateLogEnds /\ sentinelAt >= 0 /\ sentinelAt < LogTimeout
             /\ ObserverPid \in alive) =>
              (pc' = "start_workers" /\ elapsed <= sentinelAt + LogPoll)]_vars

\* C12 as amended: the same, except that a sentinel which appears within the
\* last poll interval before the deadline, after the last poll, is not seen:
\* the gate then raises the timeout error, still within one poll interval
C12_SentinelSeenOrLastSleep ==
    [][/\ SentinelNotOverslept
       /\ (GateLogEnds /\ sentinelAt >= 0 /\ ObserverPid \in alive) =>
              /\ elapsed <= sentinelAt + LogPoll
              /\ \/ pc' = "start_workers"
                 \/ /\ failed' = "log_timeout"
                    /\ sentinelAt >= LogTimeout - LogPoll]_vars

C12_Witness == pc = "start_workers" /\ sentinelAt > 0 /\ failed = "none"

\* C13: a gate whose signal does not appear ends by its deadline: it never
\* waits past the timeout plus one poll interval, it can always take its next
\* step, it reports the timeout only once the timeout has elapsed, and then
\* the run is in Cleanup with no process of a later stage started
C13_TimeoutEndsGate ==
    /\ pc = "gate_port" => elapsed < PortTimeout + PortPoll
    /\ pc = "gate_log" => elapsed < LogTimeout + LogPoll
    /\ (pc \in {"gate_port", "gate_log"} /\ MainRuns) =>
          ENABLED (GatePortPoll \/ GateLogPoll \/ Tick)
    /\ failed = "port_timeout" =>
          /\ elapsed >= PortTimeout /\ StageOf(pc) = "Cleanup"
          /\ launched \subseteq {ServerPid}
    /\ failed = "log_timeout" =>
          /\ elapsed >= LogTimeout /\ StageOf(pc) = "Cleanup"
          /\ launched \subseteq {ServerPid, ObserverPid}

C13_Witness == failed = "port_timeout" /\ pc = "exited" /\ ServerPid \in killed

\* no candidate of the range has both its port and its secondary port free
NoCandidate(b) ==
    \A k \in 0..(MaxAttempts - 1) :
        (StartPort + k) \in b \/ (StartPort + k + SecondaryOffset) \in b

\* the ports that were bound when find_available_port ran: a listener that
\* arrives later takes the allocated port
BoundAtSearch == hostBound \ {port}

\* C15: with no bindable pair in the range the search examines every one of
\* the max_attempts candidates and yields no port, the run fails with the
\* capacity error and goes to Cleanup, and no process is ever started
C15_ExhaustionStartsNothing ==
    /\ NoCandidate(BoundAtSearch) =>
          /\ FindAvailablePort(BoundAtSearch) = NoPort
          /\ Examined(BoundAtSearch) = MaxAttempts
          /\ port = NoPort /\ launched = {}
          /\ pc \notin {"construct", "setup", "alloc_port"} =>
                StageOf(pc) = "Cleanup"
    /\ failed = "port_exhausted" => NoCandidate(BoundAtSearch)

C15_Witness == failed = "port_exhausted" /\ pc = "exited"

\* C19: cleanup_orphans is called at most once in a run, and it has been
\* called (and has returned) in every state past the registry's construction,
\* so before the port is allocated and before any process is started
C19_ReapOnceBeforeSpawn ==
    /\ reapCalls <= 1
    /\ (pc \notin {"construct", "exited"} \/ port # NoPort \/ launched # {}) =>
          reapCalls = 1

C19_Witness == reapCalls = 1 /\ ServerPid \in launched /\ port # NoPort

\* C14: the port a find_available_port call returns is the smallest candidate
\* of the range whose port and secondary port were both free when the call
\* probed them
C14_SmallestBindablePair ==
    Len(returned) > 0 =>
        LET r == returned[Len(returned)] IN
        r # NoPort =>
            /\ r \in Candidates
            /\ r \notin probedBound /\ (r + SecondaryOffset) \notin probedBound
            /\ \A q \in Candidates :
                  q < r => q \in probedBound \/ (q + SecondaryOffset) \in probedBound

C14_Witness ==
    /\ returned = <<StartPort + 1>>
    /\ probedBound = {StartPort, StartPort + SecondaryOffset}

\* C16: the ports returned by find_available_port calls made one after the
\* other are pairwise distinct
C16_SequentialCallsDistinct ==
    \A i, j \in 1..Len(returned) :
        (i < j /\ returned[i] # NoPort) => returned[i] # returned[j]

\* the pids the lines of the Recovery File name, as cleanup_orphans found it
Listed == {ParsePid(file0.lines[i]) : i \in 1..Len(file0.lines)} \ {NotAPid}

\* C17: the recovery-file strategy hands to kill_tree only pids whose process
\* carries the RunMarker, and a listed pid that now belongs to a live process
\* without the marker is not signalled by this strategy
C17_OnlyMarkedKilledFromFile ==
    /\ \A q \in killedPids : procs[q].marker
    /\ \A q \in Listed : ~procs[q].marker => (q \notin sig1 /\ q \notin killedPids)

C17_Witness ==
    /\ rpc = "done"
    /\ \E q, u \in Listed :
          /\ procs[q].marker /\ q \in killedPids /\ ~procs[q].live
          /\ ~procs[u].marker /\ procs[u].live

\* the recovery-file strategy is over
FileStrategyOver == rpc \in {"scan", "pattern", "done", "raised_scan"}

\* C18: whatever the Recovery File holds, the recovery-file strategy ends
\* without raising, with the tree of every listed live process that carries
\* the marker killed, with no other line acted upon, and with the file gone
C18_FileStrategyOutcome ==
    /\ rpc # "raised_file"
    /\ FileStrategyOver =>
          /\ ~pidFile.exists
          /\ \A q \in Listed :
                IF procs[q].marker
                THEN ~procs[q].live /\ (q \in killedPids \/ q \in sig1)
                ELSE q \notin sig1 /\ q \notin killedPids

C18_Witness ==
    /\ rpc = "done" /\ file0.exists /\ Len(file0.lines) = 2
    /\ \E q, u \in Others :
          /\ file0.lines = <<PidText[q], PidText[u]>>
          /\ q \in killedPids /\ u \notin killedPids
          /\ ~procs[u].live /\ ~procs[u].marker

\* C20: while the supervisor of the earlier run is still running,
\* cleanup_orphans kills none of the processes that run has listed in its
\* Recovery File and leaves the file in place
C20_RunningOwnerUntouched ==
    procs[PrevSupervisor].live =>
        /\ \A q \in Listed : procs[q].marker => procs[q].live
        /\ file0.exists => pidFile.exists

\* C21: whatever os.environ and the env argument of start_process hold, an
\* argument that assigns XMAGE_AI_HARNESS included, the spawned process has
\* XMAGE_AI_HARNESS = "1" in its environment
C21_MarkerAlwaysOne == epc = "spawned" => envChild[RunMarker] = "1"

\* the pids the lines of the Recovery File name, one per line, in order
FilePids == [i \in 1..Len(pidFile.lines) |-> ParsePid(pidFile.lines[i])]

\* C22: after any number of start_process calls, whenever a call has returned
\* the Recovery File exists and its lines name exactly the processes tracked
\* so far, one per line, the newly spawned one included
C22_FileListsTracked ==
    (tracked # <<>> /\ sp # "opened") =>
        /\ pidFile.exists
        /\ FilePids = tracked
        /\ (sp = "none" /\ MainRuns => launched = Range(tracked))

C22_Witness ==
    /\ sp = "none" /\ MainRuns /\ pc = "await_observer"
    /\ Len(tracked) = 2 + MaxWorkers /\ FilePids = tracked

\* C23: whoever reads the Recovery File while the supervisor runs reads the
\* complete list of an earlier moment or the complete new list, never an
\* empty or partial file
C23_ReaderSeesCompleteList ==
    (pidFile.exists /\ reapCalls > 0) =>
        \E n \in 1..Len(tracked) : FilePids = SubSeq(tracked, 1, n)

\* the signals sent up to the k-th one reached or addressed q
KAddressedBefore(q, k) == \E j \in 1..(k - 1) : q \in ksig[j].to

\* C24: in every kill_tree call, the caller's group or another, every
\* enumerated descendant has been sent its termination request before any
\* termination request reaches the target itself
C24_DescendantsBeforeTarget ==
    \A k \in 1..Len(ksig) :
        (ksig[k].sig = "TERM" /\ Target \in ksig[k].to) =>
            \A d \in kenum : KAddressedBefore(d, k)

\* the pids a forced kill was sent to and reached
KForced == {q \in KPids : \E k \in 1..Len(ksig) :
                ksig[k].sig = "KILL" /\ q \in ksig[k].hit}

\* C25: kill_tree never waits longer than the grace period, and when it
\* returns every process it enumerated, the target included, has exited or
\* has been sent the forced kill
C25_GraceThenForcedKill ==
    /\ kwait <= GracePeriod
    /\ kpc = "returned" =>
          \A q \in kenum \cup {Target} : ~ktab[q].live

C25_Witness ==
    /\ kpc = "returned" /\ kwait = GracePeriod
    /\ \E q, u \in kenum \cup {Target} : q \in KForced /\ u \notin KForced

\* C26: kill_tree does not raise, whichever processes of the tree exit on
\* their own between its steps
C26_NoRaiseOnExits == kpc # "raised"

C26_Witness ==
    /\ kpc = "returned"
    /\ \E j, k \in 1..Len(ksig) :
          /\ ksig[j].sig = "TERM" /\ ksig[j].hit = {}
          /\ ksig[k].sig = "KILL" /\ ksig[k].hit = {}

\* C27: the records leave the tracked list only when the processes they
\* stand for and all their descendants have exited (each process of the
\* model is a spawned process or a descendant of one; the step is taken
\* with every spawned process tracked)
C27_RemovedOnlyWhenTreeGone ==
    [][(tracked # <<>> /\ tracked' = <<>> /\ launched = Range(tracked))
          => alive' = {}]_vars

\* C28: every change of the tracked list and every write or removal of the
\* Recovery File by the supervisor is made with the lock held, the removal
\* by the orphan reaping of the constructor included
C28_ChangesUnderLock ==
    [][(tracked' # tracked \/ pidFile' # pidFile) => lock # 0]_vars

\* C28, amended: start_process and cleanup change the tracked list and the
\* Recovery File with the lock held; the constructor's orphan reaping
\* removes an earlier run's file without the lock, before the handlers are
\* installed and before any process is tracked
C28_ChangesUnderLockOrConstructing ==
    [][(tracked' # tracked \/ pidFile' # pidFile) =>
          \/ lock # 0
          \/ /\ pc = "construct" /\ ~handlersInstalled
             /\ tracked = <<>> /\ tracked' = <<>> /\ ~pidFile'.exists]_vars

C28_Witness ==
    /\ sp = "opened" /\ lock = 1 /\ pidFile = Truncated
    /\ Len(tracked) = 2 /\ reapCalls = 1

\* C29: whatever the number of workers, zero included, a run that is at
\* AwaitPresentationExit has passed the log gate: the observer's log holds
\* the sentinel
C29_AwaitAfterLogGate == pc = "await_observer" => observerLog = "sentinel"

\* C29, amended: a run with at least one worker configured that is at
\* AwaitPresentationExit has passed the log gate; with no worker the gate
\* is not run
C29_AwaitAfterLogGateIfWorkers ==
    (pc = "await_observer" /\ N > 0) =>
        /\ observerLog = "sentinel"
        /\ failed \notin {"observer_died", "log_timeout"}

C29_Witness ==
    /\ pc = "await_observer" /\ N = 1 /\ observerLog = "sentinel"
    /\ ObserverPid \in alive /\ launched = {ServerPid, ObserverPid, WorkerPid(1)}

\* C30: with no signal and no failure, main() leaves AwaitPresentationExit
\* only once the observer has exited, whatever the server and the workers
\* do, and the run then ends with cleanup done: the server and every worker
\* that was still alive have been killed
C30_EndsOnObserverExitOnly ==
    [][/\ (pc = "await_observer" /\ pc' # "await_observer" /\ sigCount' = 0)
            => (ObserverPid \notin alive /\ pc' = "finally")
       /\ (pc' = "exited" /\ handlersInstalled' /\ sigCount' = 0
              /\ failed' = "none")
            => /\ cleanedUp' /\ launched' \cap alive' = {}
               /\ ObserverPid \notin killed']_vars

C30_Witness ==
    /\ pc = "exited" /\ sigCount = 0 /\ failed = "none"
    /\ killed = {ServerPid, WorkerPid(1)} /\ N = 2

C32_ReaperNeverRaises == rpc \notin {"raised_file", "raised_scan"}

C34_NoRespawn ==
    [][/\ \A p \in 1..MaxRoots : (p \in alive' /\ p \notin alive) => p \notin launched
       /\ \A i, j \in 1..Len(tracked') : i # j => tracked'[i] # tracked'[j]]_vars

C34_Witness ==
    /\ pc = "await_observer" /\ N = MaxWorkers /\ ObserverPid \in alive
    /\ launched = 1..MaxRoots /\ alive = {ObserverPid}
    /\ Len(tracked) = MaxRoots

\* C35: every signal kill_tree sends reaches only the target and processes
\* that are its descendants, or were when it enumerated them; no other
\* member of the target's process group is signalled
C35_SignalsOnlyTree ==
    [][ksig' # ksig =>
          ksig'[Len(ksig')].hit \subseteq
              {Target} \cup KDescendants(Target) \cup kenum]_vars

\* C36: cleanup_orphans never signals the process that runs it, be it
\* matched by the pattern scan, or a descendant or a process-group member
\* of a process that is killed
C36_ReaperNotSignalled == MyPid \notin sig1 \cup sig2

\* C37: whenever the cleaned-up flag is set and no cleanup() call is under
\* way, the tracked list is empty, the Recovery File does not exist, and no
\* process the supervisor spawned is alive, out of reach of later cleanup()
\* calls
C37_FlagMeansNothingLeft ==
    (cleanedUp /\ lock = 0) =>
        /\ tracked = <<>> /\ ~pidFile.exists
        /\ \A p \in launched : p \notin alive

\* C38: in every state in which a process has been spawned or is tracked,
\* the supervisor's signal handlers and exit finalizer are installed
C38_HandlersBeforeFirstSpawn ==
    (tracked # <<>> \/ launched # {} \/ sp # "none") => handlersInstalled

C38_Witness ==
    /\ handlersInstalled /\ Len(tracked) = 1 /\ Len(frames) = 2
    /\ sigCount = 1 /\ pc = "gate_port"

\* C39: when the port gate succeeds, the listener on the allocated port is
\* the one of the server this run started
C39_GateMeansOwnServer ==
    [][(pc = "gate_port" /\ pc' = "start_observer") => listening]_vars

\* C40: the sentinel on which the log gate succeeds was written by this
\* run's observer: once the observer is spawned the log holds nothing that
\* was in it before
C40_SentinelIsThisRuns ==
    [][/\ (pc = "gate_log" /\ pc' = "start_workers") => observerLog = "sentinel"
       /\ ObserverPid \in launched' => observerLog' # "stale"]_vars

C40_Witness ==
    /\ pc = "start_workers" /\ widx = 1 /\ observerLog = "sentinel"
    /\ sentinelAt > 0 /\ ObserverPid \in alive /\ N = MaxWorkers

====
